---- MODULE Spec2Model ----
(***************************************************************************)
(* Model of useintest/services/controllers.py: the construction of a       *)
(* DockerisedServiceController, the start/retry loop of                    *)
(* ContainerisedServiceController.start_service, the readiness wait of the *)
(* Dockerised controller (log stream, HTTP polling, custom monitor) and    *)
(* stop_service, run against a small model of the container runtime.       *)
(***************************************************************************)
EXTENDS Integers, Sequences, FiniteSets, TLC

\* ------------------------------------------------------------------ bounds
MaxTries == 2          \* largest finite start_tries drawn by the constructor
MaxAttempts == MaxTries        \* cap on the attempts of a call with unbounded start_tries
MaxContainers == MaxTries + 1  \* container handles the runtime can hand out
MaxServices == 1       \* Service models that can be constructed
MaxLines == 2          \* lines one container can write to its log
MaxPolls == 3          \* HTTP polls modelled in one attempt

\* ------------------------------------------------------------- value sets
None == 0
Unbounded == -1                                  \* math.inf
Services == 1..MaxServices
Cids == 1..MaxContainers
TriesValues == (0..MaxTries) \cup {Unbounded}
Timeouts == {"inf", "finite"}
PortSets == {{80, 443}}                          \* declared (container) ports
HostPorts == {49152}                             \* results of _get_open_port
Detectors == {"start", "persistent", "transient"}
\* A log line is represented by the set of log detectors that answer True on it.
Lines == SUBSET Detectors
HttpResponses == {"accept", "reject", "connection_error"}
MonitorResults == {"return", "TransientServiceStartError",
                   "PersistentServiceStartError", "ServiceStartError"}
Present == {"running", "exited"}

VARIABLES
    pc,            \* "new", "configError", "idle", or the position inside start_service
    ctrl,          \* the controller's fields (NoCtrl before construction)
    svc,           \* Service models: name, ports, controller, container
    exists,        \* the Service models constructed so far
    docker,        \* container runtime: handle -> "none" | "running" | "exited" | "removed"
    log_iterator,  \* DockerisedServiceController._log_iterator (its keys)
    exitHooks,     \* services registered with atexit
    history,       \* which services _start and _stop have acted on, and the
                   \* service each container was created for
    call,          \* the start_service invocation in progress
    stream,        \* lines written so far by the container of the current attempt
    pos,           \* lines of stream consumed by the log reader
    polls,         \* HTTP polls made in the current attempt
    streamOpen,    \* the log stream of the current attempt's container is still open
    lastCall,      \* the last public call completed since the latest start_service
                   \* began, and how it ended
    prevCall       \* the completed public call before lastCall

vars == <<pc, ctrl, svc, exists, docker, log_iterator, exitHooks, history, call, stream,
          pos, polls, streamOpen, lastCall, prevCall>>

EmptyPorts == [p \in {} |-> 0]
NoCtrl == [constructed |-> FALSE]
FreshService == [name |-> None, ports |-> EmptyPorts, controller |-> "none",
                 container |-> None]
NoInvocation == [svc |-> None, tries |-> 0, starts |-> 0, stops |-> 0,
                 onlyTransient |-> TRUE]
NoCall == [op |-> "none", svc |-> None, outcome |-> "none", rt |-> <<>>,
           tries |-> 0, starts |-> 0, stops |-> 0, onlyTransient |-> TRUE,
           message |-> <<>>, log |-> <<>>, polls |-> 0]
\* What prevCall keeps of a completed call.
Brief(c) == [op |-> c.op, svc |-> c.svc, outcome |-> c.outcome]

ConstructorArgs ==
    [startup_monitor : BOOLEAN,
     start_log_detector : BOOLEAN,
     persistent_error_log_detector : BOOLEAN,
     transient_error_log_detector : BOOLEAN,
     start_http_detector : BOOLEAN,
     start_http_detection_endpoint : BOOLEAN,
     start_timeout : Timeouts,
     start_tries : TriesValues,
     ports : PortSets]

Init ==
    /\ pc = "new"
    /\ ctrl = NoCtrl
    /\ svc = [s \in Services |-> FreshService]
    /\ exists = {}
    /\ docker = [c \in Cids |-> "none"]
    /\ log_iterator = {}
    /\ exitHooks = <<>>
    /\ history = [started |-> {}, stopped |-> {}, owner |-> [c \in Cids |-> None]]
    /\ call = NoInvocation
    /\ stream = <<>>
    /\ pos = 0
    /\ polls = 0
    /\ streamOpen = FALSE
    /\ lastCall = NoCall
    /\ prevCall = Brief(NoCall)

\* ------------------------------------------------------------ construction
\* Variant: the check forgets start_http_detector.
MonitorWithDetector_NoHttp(a) ==
    a.startup_monitor /\ (a.start_log_detector \/ a.persistent_error_log_detector
                          \/ a.transient_error_log_detector)

\* Variant: the check looks at start_log_detector only.
MonitorWithDetector_StartOnly(a) ==
    a.startup_monitor /\ a.start_log_detector

\* The first check of DockerisedServiceController.__init__.
MonitorWithDetector(a) ==
    a.startup_monitor /\ (a.start_log_detector \/ a.persistent_error_log_detector
                          \/ a.transient_error_log_detector \/ a.start_http_detector)

\* The second check of DockerisedServiceController.__init__.
HttpPairMismatch(a) ==
    \/ (~a.start_http_detector /\ a.start_http_detection_endpoint)
    \/ (a.start_http_detector /\ ~a.start_http_detection_endpoint)

Completed(op, s, outcome, rt, message, inv) ==
    [op |-> op, svc |-> s, outcome |-> outcome, rt |-> rt,
     tries |-> inv.tries, starts |-> inv.starts, stops |-> inv.stops,
     onlyTransient |-> inv.onlyTransient, message |-> message, log |-> stream,
     polls |-> polls]

Construct(a) ==
    /\ pc = "new"
    /\ IF MonitorWithDetector(a) \/ HttpPairMismatch(a)
       THEN /\ pc' = "configError"
            /\ ctrl' = ctrl
            /\ lastCall' = Completed("__init__", None, "ValueError", <<>>, <<a>>, NoInvocation)
       ELSE /\ pc' = "idle"
            /\ ctrl' = [constructed |-> TRUE,
                        start_timeout |-> a.start_timeout,
                        start_tries |-> a.start_tries,
                        stop_on_exit |-> TRUE,
                        startup_monitor |-> a.startup_monitor,
                        ports |-> a.ports,
                        start_log_detector |-> a.start_log_detector,
                        persistent_error_log_detector |-> a.persistent_error_log_detector,
                        transient_error_log_detector |-> a.transient_error_log_detector,
                        start_http_detector |-> a.start_http_detector,
                        start_http_detection_endpoint |-> a.start_http_detection_endpoint]
            /\ lastCall' = Completed("__init__", None, "returned", <<>>, <<a>>, NoInvocation)
    /\ prevCall' = Brief(lastCall)
    /\ UNCHANGED <<svc, exists, docker, log_iterator, exitHooks, history, call, stream, pos,
                   polls, streamOpen>>

\* ---------------------------------------------------------- _stop / _start
\* Variant: no `if service.container` guard.
_stop_NoGuard(s) ==
    LET c == svc[s].container
        li == log_iterator \ {s}
    IN  IF c # None /\ docker[c] \in Present
        THEN [docker |-> [docker EXCEPT ![c] = "removed"], log_iterator |-> li,
              rt |-> <<"stop", "remove">>, error |-> "none"]
        ELSE [docker |-> docker, log_iterator |-> li, rt |-> <<"stop">>,
              error |-> IF c = None THEN "AttributeError" ELSE "none"]

\* Variant: no `except NotFound`.
_stop_NoExcept(s) ==
    LET c == svc[s].container
        li == log_iterator \ {s}
    IN  IF c = None
        THEN [docker |-> docker, log_iterator |-> li, rt |-> <<>>, error |-> "none"]
        ELSE IF docker[c] \in Present
             THEN [docker |-> [docker EXCEPT ![c] = "removed"], log_iterator |-> li,
                   rt |-> <<"stop", "remove">>, error |-> "none"]
             ELSE [docker |-> docker, log_iterator |-> li, rt |-> <<"stop">>,
                   error |-> "NotFound"]

\* Variant: the container is stopped but not removed.
_stop_NoRemove(s) ==
    LET c == svc[s].container
        li == log_iterator \ {s}
    IN  IF c = None
        THEN [docker |-> docker, log_iterator |-> li, rt |-> <<>>, error |-> "none"]
        ELSE IF docker[c] \in Present
             THEN [docker |-> [docker EXCEPT ![c] = "exited"], log_iterator |-> li,
                   rt |-> <<"stop">>, error |-> "none"]
             ELSE [docker |-> docker, log_iterator |-> li, rt |-> <<"stop">>,
                   error |-> "none"]

\* Variant: _stop leaves the container alone.
_stop_Noop(s) ==
    [docker |-> docker, log_iterator |-> log_iterator \ {s}, rt |-> <<>>,
     error |-> "none"]

\* DockerisedServiceController._stop on service s: the runtime calls it makes,
\* the runtime state it leaves and the error it lets escape.
_stop(s) ==
    LET c == svc[s].container
        li == log_iterator \ {s}
    IN  IF c = None
        THEN [docker |-> docker, log_iterator |-> li, rt |-> <<>>, error |-> "none"]
        ELSE IF docker[c] \in Present
             THEN [docker |-> [docker EXCEPT ![c] = "removed"], log_iterator |-> li,
                   rt |-> <<"stop", "remove">>, error |-> "none"]
             ELSE \* container.stop() raises NotFound, which is swallowed
                  [docker |-> docker, log_iterator |-> li, rt |-> <<"stop">>,
                   error |-> "none"]

NewCid(d) == CHOOSE c \in Cids : d[c] = "none" /\ \A e \in Cids : d[e] = "none" => c <= e

\* Variant: `service.container = container` is missing.
_start_NoContainerField(s, d, hp) ==
    LET c == NewCid(d)
    IN  [service |-> [name |-> c, ports |-> hp, controller |-> "self",
                      container |-> svc[s].container],
         docker |-> [d EXCEPT ![c] = "running"]]

\* Variant: only the first declared port gets a host port.
_start_OnePort(s, d, hp) ==
    LET c == NewCid(d)
        first == CHOOSE p \in DOMAIN hp : \A q \in DOMAIN hp : p <= q
    IN  [service |-> [name |-> c, ports |-> [p \in {first} |-> hp[p]],
                      controller |-> "self", container |-> c],
         docker |-> [d EXCEPT ![c] = "running"]]

\* DockerisedServiceController._start on service s, from runtime state d, with
\* hp the host ports handed out by _get_open_port.
_start(s, d, hp) ==
    LET c == NewCid(d)
    IN  [service |-> [name |-> c, ports |-> hp, controller |-> "self", container |-> c],
         docker |-> [d EXCEPT ![c] = "running"]]

\* _stop has completed on service s.
AfterStop(h, s) == [h EXCEPT !.stopped = @ \cup {s}]

\* _start has been called on service s and created container c for it.
AfterStart(h, s, c) ==
    [h EXCEPT !.started = @ \cup {s}, !.stopped = @ \ {s}, !.owner[c] = s]

\* ------------------------------------------------------------ stop_service
StopService(s) ==
    /\ pc = "idle"
    /\ s \in exists
    /\ LET r == _stop(s)
       IN  /\ docker' = r.docker
           /\ log_iterator' = r.log_iterator
           /\ history' = IF r.error = "none" THEN AfterStop(history, s) ELSE history
           /\ lastCall' = Completed("stop_service", s,
                                    IF r.error = "none" THEN "returned" ELSE r.error,
                                    r.rt, <<>>, NoInvocation)
    /\ prevCall' = Brief(lastCall)
    /\ UNCHANGED <<pc, ctrl, svc, exists, exitHooks, call, stream, pos, polls,
                   streamOpen>>

\* A test constructs a Service model itself: DockerisedService().
NewService(s) ==
    /\ pc = "idle"
    /\ s \notin exists
    /\ \A t \in Services : t < s => t \in exists
    /\ exists' = exists \cup {s}
    /\ UNCHANGED <<pc, ctrl, svc, docker, log_iterator, exitHooks, history, call, stream,
                   pos, polls, streamOpen, lastCall, prevCall>>

\* ----------------------------------------------------------- start_service
\* Variant: stop_service is never registered with atexit.
RegisterExitHook_Never(s) == exitHooks

\* `if self.stop_on_exit: atexit.register(self.stop_service, service)`.
RegisterExitHook(s) == IF ctrl.stop_on_exit THEN Append(exitHooks, s) ELSE exitHooks

\* start_service, up to the loop: a fresh Service model and the exit hook.
StartService(s) ==
    /\ pc = "idle"
    /\ s \notin exists
    /\ \A t \in Services : t < s => t \in exists
    /\ exists' = exists \cup {s}
    /\ exitHooks' = RegisterExitHook(s)
    /\ call' = [NoInvocation EXCEPT !.svc = s]
    /\ pc' = "loop"
    /\ lastCall' = NoCall
    /\ prevCall' = Brief(NoCall)
    /\ UNCHANGED <<ctrl, svc, docker, log_iterator, history, stream, pos, polls,
                   streamOpen>>

\* Variant: the loop stops one attempt early.
TriesLeft_OffByOne(tries) ==
    ctrl.start_tries = Unbounded \/ tries + 1 < ctrl.start_tries

\* The loop condition `tries < self.start_tries`.
TriesLeft(tries) == ctrl.start_tries = Unbounded \/ tries < ctrl.start_tries

\* The readiness wait of the attempt is over: its log stream is dropped.
LeaveWait ==
    /\ stream' = <<>>
    /\ pos' = 0
    /\ polls' = 0
    /\ streamOpen' = FALSE

\* start_service returns or raises: the invocation inv is over, after n HTTP
\* polls in its last attempt.
EndCallAfter(outcome, message, inv, n) ==
    /\ pc' = "idle"
    /\ lastCall' = [Completed("start_service", inv.svc, outcome, <<>>, message, inv)
                        EXCEPT !.polls = n]
    /\ prevCall' = Brief(lastCall)
    /\ call' = NoInvocation
    /\ LeaveWait

EndCall(outcome, message, inv) == EndCallAfter(outcome, message, inv, polls)

\* Variant: `except TimeoutError` is missing, the timeout reaches the caller.
FailAttempt_TimeoutEscapes(kind) ==
    IF kind = "timeout"
    THEN /\ EndCall("TimeoutError", <<>>, [call EXCEPT !.onlyTransient = FALSE])
    ELSE /\ pc' = "loop"
         /\ call' = [call EXCEPT !.tries = @ + 1,
                                 !.onlyTransient = @ /\ kind = "transient_line"]
         /\ LeaveWait
         /\ UNCHANGED <<lastCall, prevCall>>

\* The except clauses of start_service followed by `tries += 1`.
FailAttempt(kind) ==
    /\ pc' = "loop"
    /\ call' = [call EXCEPT !.tries = @ + 1,
                            !.onlyTransient = @ /\ kind = "transient_line"]
    /\ LeaveWait
    /\ UNCHANGED <<lastCall, prevCall>>

\* One iteration of the loop up to the readiness wait: _stop of the previous
\* attempt's container (tries > 0), then _start.
Attempt(hp) ==
    /\ pc = "loop"
    /\ TriesLeft(call.tries)
    /\ call.tries < MaxAttempts
    /\ LET s == call.svc
           st == IF call.tries > 0 THEN _stop(s)
                 ELSE [docker |-> docker, log_iterator |-> log_iterator,
                       rt |-> <<>>, error |-> "none"]
           stopped == [call EXCEPT !.stops = @ + (IF call.tries > 0 THEN 1 ELSE 0)]
       IN  IF st.error # "none"
           THEN /\ EndCall(st.error, <<>>, [stopped EXCEPT !.onlyTransient = FALSE])
                /\ docker' = st.docker
                /\ log_iterator' = st.log_iterator
                /\ UNCHANGED <<svc, history>>
           ELSE /\ \E c \in Cids : st.docker[c] = "none"
                /\ LET r == _start(s, st.docker, hp)
                   IN  /\ svc' = [svc EXCEPT ![s] = r.service]
                       /\ docker' = r.docker
                /\ log_iterator' = st.log_iterator
                /\ history' = AfterStart(IF call.tries > 0 THEN AfterStop(history, s)
                                         ELSE history, s, NewCid(st.docker))
                /\ call' = [stopped EXCEPT !.starts = @ + 1]
                /\ stream' = <<>>
                /\ pos' = 0
                /\ polls' = 0
                /\ streamOpen' = TRUE
                /\ pc' = "wait"
                /\ UNCHANGED <<lastCall, prevCall>>
    /\ UNCHANGED <<ctrl, exists, exitHooks>>

\* _get_open_port hands out some host port for every declared port.
Attempts == pc = "loop" /\ \E hp \in [ctrl.ports -> HostPorts] : Attempt(hp)

\* Variant: the last attempt's container is stopped before the raise.
RaiseServiceStartError_Cleanup ==
    /\ pc = "loop"
    /\ ~TriesLeft(call.tries)
    /\ EndCall("ServiceStartError", <<>>, [call EXCEPT !.stops = @ + 1])
    /\ docker' = _stop(call.svc).docker
    /\ UNCHANGED <<ctrl, svc, exists, log_iterator, exitHooks, history>>

\* The loop is left: `raise ServiceStartError()`.
RaiseServiceStartError ==
    /\ pc = "loop"
    /\ ~TriesLeft(call.tries)
    /\ EndCall("ServiceStartError", <<>>, call)
    /\ UNCHANGED <<ctrl, svc, exists, docker, log_iterator, exitHooks, history>>

\* Variant: the log is read whenever any log detector is configured.
_wait_until_started_AnyLogDetector ==
    IF ctrl.startup_monitor THEN "monitor"
    ELSE IF ctrl.start_log_detector \/ ctrl.persistent_error_log_detector
            \/ ctrl.transient_error_log_detector THEN "log"
    ELSE IF ctrl.start_http_detector THEN "http"
    ELSE "return"

\* DockerisedServiceController._wait_until_started: what the wait does first.
_wait_until_started ==
    IF ctrl.startup_monitor THEN "monitor"
    ELSE IF ctrl.start_log_detector THEN "log"
    ELSE IF ctrl.start_http_detector THEN "http"
    ELSE "return"

\* What _wait_until_started does once _wait_until_log_indicates_start returned.
AfterLogStart == IF ctrl.start_http_detector THEN "http" ELSE "return"

\* The wait goes on with the given phase, or is over ("return") and
\* start_service returns the service.
EnterWait(phase) ==
    IF phase = "return"
    THEN EndCall("returned", <<>>, call)
    ELSE /\ pc' = phase
         /\ UNCHANGED <<call, lastCall, prevCall, stream, polls, streamOpen>>

WaitUntilStarted ==
    /\ pc = "wait"
    /\ EnterWait(_wait_until_started)
    /\ _wait_until_started # "return" => pos' = pos
    /\ UNCHANGED <<ctrl, svc, exists, docker, log_iterator, exitHooks, history>>

\* Variant: a persistent-error match is raised as a transient error.
ClassifyLine_PersistentRetried(line) ==
    IF ctrl.persistent_error_log_detector /\ "persistent" \in line THEN "transient"
    ELSE IF ctrl.transient_error_log_detector /\ "transient" \in line THEN "transient"
    ELSE IF "start" \in line THEN "started"
    ELSE "continue"

\* Variant: the start detector is asked before the error detectors.
ClassifyLine_StartFirst(line) ==
    IF "start" \in line THEN "started"
    ELSE IF ctrl.persistent_error_log_detector /\ "persistent" \in line THEN "persistent"
    ELSE IF ctrl.transient_error_log_detector /\ "transient" \in line THEN "transient"
    ELSE "continue"

\* The if/elif chain of _wait_until_log_indicates_start on one line.
ClassifyLine(line) ==
    IF ctrl.persistent_error_log_detector /\ "persistent" \in line THEN "persistent"
    ELSE IF ctrl.transient_error_log_detector /\ "transient" \in line THEN "transient"
    ELSE IF "start" \in line THEN "started"
    ELSE "continue"

\* One iteration of `for line in log_stream`.
ReadLogLine ==
    /\ pc = "log"
    /\ pos < Len(stream)
    /\ LET line == stream[pos + 1]
           verdict == ClassifyLine(line)
       IN  CASE verdict = "persistent" ->
                    EndCall("PersistentServiceStartError", <<line>>,
                            [call EXCEPT !.onlyTransient = FALSE])
             [] verdict = "transient" -> FailAttempt("transient_line")
             [] verdict = "started" ->
                    /\ EnterWait(AfterLogStart)
                    /\ AfterLogStart # "return" => pos' = pos + 1
             [] OTHER ->
                    /\ pos' = pos + 1
                    /\ UNCHANGED <<pc, call, lastCall, prevCall, stream, polls,
                                   streamOpen>>
    /\ UNCHANGED <<ctrl, svc, exists, docker, log_iterator, exitHooks, history>>

\* The log stream is exhausted: the assertion on the running containers and
\* the TransientServiceStartError after it.
LogStreamEnds ==
    /\ pc = "log"
    /\ ~streamOpen
    /\ pos = Len(stream)
    /\ IF docker[svc[call.svc].container] = "running"
       THEN EndCall("AssertionError", <<>>, [call EXCEPT !.onlyTransient = FALSE])
       ELSE FailAttempt("stream_end")
    /\ UNCHANGED <<ctrl, svc, exists, docker, log_iterator, exitHooks, history>>

\* Variant: the answer of start_http_detector is dropped (`while True`).
HttpVerdict_NeverStarted(response) ==
    IF response = "connection_error" THEN "ConnectionError" ELSE "sleep"

\* One request of _wait_until_http_indicates_start and what the loop does
\* with it: requests.head raises, or start_http_detector(response) decides.
HttpVerdict(response) ==
    IF response = "connection_error" THEN "ConnectionError"
    ELSE IF response = "accept" THEN "started"
    ELSE "sleep"

\* One iteration of the loop of _wait_until_http_indicates_start; polls
\* counts the requests the loop has made in this attempt.
HttpPoll(response) ==
    /\ pc = "http"
    /\ polls < MaxPolls
    /\ CASE HttpVerdict(response) = "started" ->
                EndCallAfter("returned", <<>>, call, polls + 1)
         [] HttpVerdict(response) = "sleep" ->
                /\ polls' = polls + 1
                /\ UNCHANGED <<pc, call, lastCall, prevCall, stream, pos, streamOpen>>
         [] OTHER -> EndCallAfter("ConnectionError", <<>>,
                                  [call EXCEPT !.onlyTransient = FALSE], polls + 1)
    /\ UNCHANGED <<ctrl, svc, exists, docker, log_iterator, exitHooks, history>>

\* self.startup_monitor(service) returns or raises.
MonitorReturns(result) ==
    /\ pc = "monitor"
    /\ CASE result = "return" -> EndCall("returned", <<>>, call)
         [] result = "TransientServiceStartError" -> FailAttempt("monitor")
         [] OTHER -> EndCall(result, <<>>, [call EXCEPT !.onlyTransient = FALSE])
    /\ UNCHANGED <<ctrl, svc, exists, docker, log_iterator, exitHooks, history>>

\* Variant: the wait is wrapped in the timeout whatever start_timeout is.
HasDeadline_Always == TRUE

\* `if self.start_timeout is not math.inf`: the wait runs under a deadline.
HasDeadline == ctrl.start_timeout # "inf"

\* timeout_decorator interrupts the wrapped wait: `except TimeoutError`.
Timeout ==
    /\ pc \in {"log", "http", "monitor"}
    /\ HasDeadline
    /\ FailAttempt("timeout")
    /\ UNCHANGED <<ctrl, svc, exists, docker, log_iterator, exitHooks, history>>

\* ------------------------------------------------------- container runtime
\* Whether a container is running or has exited is seen by the controller
\* only during the readiness wait of the attempt that started it (_stop
\* treats both alike), so the runtime's own steps are modelled for the
\* container of the attempt in progress.
Current == svc[call.svc].container

\* The log detectors the controller was given: only these can be called on a
\* line, so only these can match it.
Callable ==
    {d \in Detectors :
        \/ d = "start" /\ ctrl.start_log_detector
        \/ d = "persistent" /\ ctrl.persistent_error_log_detector
        \/ d = "transient" /\ ctrl.transient_error_log_detector}

\* The container of the current attempt writes a line to its log.  The writer
\* is kept at most one line ahead of the reader.
ContainerWrites(line) ==
    /\ pc \in {"wait", "log"}
    /\ line \subseteq Callable
    /\ streamOpen
    /\ docker[Current] = "running"
    /\ Len(stream) < MaxLines
    /\ Len(stream) = pos
    /\ stream' = Append(stream, line)
    /\ UNCHANGED <<pc, ctrl, svc, exists, docker, log_iterator, exitHooks, history, call, pos,
                   polls, streamOpen, lastCall, prevCall>>

\* The running container exits by itself; its log stream closes.
ContainerExits ==
    /\ pc \in {"wait", "log", "http", "monitor"}
    /\ docker[Current] = "running"
    /\ streamOpen
    /\ docker' = [docker EXCEPT ![Current] = "exited"]
    /\ streamOpen' = FALSE
    /\ UNCHANGED <<pc, ctrl, svc, exists, log_iterator, exitHooks, history, call, stream, pos,
                   polls, lastCall, prevCall>>

\* The exited container is started again by the runtime (a restart policy
\* given through additional_run_settings).
ContainerRestarts ==
    /\ pc \in {"wait", "log", "http", "monitor"}
    /\ docker[Current] = "exited"
    /\ docker' = [docker EXCEPT ![Current] = "running"]
    /\ UNCHANGED <<pc, ctrl, svc, exists, log_iterator, exitHooks, history, call, stream, pos,
                   polls, streamOpen, lastCall, prevCall>>

\* ------------------------------------------------------------ process exit
\* The services whose stop_service is registered with atexit.
Hooked == {exitHooks[i] : i \in 1..Len(exitHooks)}

\* The interpreter exits, whatever the controller is doing: every registered
\* hook runs stop_service on its service.  The services hold different
\* containers, so the order of the hooks does not matter.
ProcessExit ==
    /\ pc \in {"idle", "loop", "wait", "log", "http", "monitor"}
    /\ docker' = [c \in Cids |->
                      LET hooks == {s \in Hooked : _stop(s).docker[c] # docker[c]}
                      IN  IF hooks = {} THEN docker[c]
                          ELSE _stop(CHOOSE s \in hooks : TRUE).docker[c]]
    /\ log_iterator' = {t \in log_iterator : \A s \in Hooked : t \in _stop(s).log_iterator}
    /\ history' = [history EXCEPT !.stopped = @ \cup Hooked]
    /\ exitHooks' = <<>>
    /\ pc' = "exited"
    /\ lastCall' = Completed("atexit", call.svc, "returned", <<>>, <<pc>>, call)
    /\ prevCall' = Brief(lastCall)
    /\ call' = NoInvocation
    /\ LeaveWait
    /\ UNCHANGED <<ctrl, svc, exists>>

Next ==
    \/ \E a \in ConstructorArgs : Construct(a)
    \/ \E s \in Services : StartService(s)
    \/ Attempts
    \/ RaiseServiceStartError
    \/ WaitUntilStarted
    \/ ReadLogLine
    \/ LogStreamEnds
    \/ \E response \in HttpResponses : HttpPoll(response)
    \/ \E result \in MonitorResults : MonitorReturns(result)
    \/ Timeout
    \/ \E s \in Services : StopService(s)
    \/ \E s \in Services : NewService(s)
    \/ \E line \in Lines : ContainerWrites(line)
    \/ ContainerExits
    \/ ContainerRestarts
    \/ ProcessExit

Spec == Init /\ [][Next]_vars

\* ================================================================== claims
\* A configured error detector answers True on the line.
ErrorMatch(line) ==
    \/ ctrl.persistent_error_log_detector /\ "persistent" \in line
    \/ ctrl.transient_error_log_detector /\ "transient" \in line

\* C1: when the persistent-error detector matches the line being read,
\* start_service ends right there with PersistentServiceStartError: no _start
\* or _stop is made after the match (the counts of the invocation and the
\* runtime are as they were), and the number of _start calls is the attempt
\* number, so it is 1 when the match is on the first attempt.
PersistentMatchAbortsStart ==
    [][(/\ pc = "log"
        /\ pos < Len(stream)
        /\ ctrl.persistent_error_log_detector
        /\ "persistent" \in stream[pos + 1]
        /\ ReadLogLine)
       => (/\ pc' = "idle"
           /\ lastCall'.op = "start_service"
           /\ lastCall'.outcome = "PersistentServiceStartError"
           /\ lastCall'.starts = call.starts
           /\ lastCall'.stops = call.stops
           /\ lastCall'.starts = call.tries + 1
           /\ docker' = docker
           /\ svc' = svc)]_vars

PersistentOnFirstAttempt ==
    /\ lastCall.op = "start_service"
    /\ lastCall.outcome = "PersistentServiceStartError"
    /\ lastCall.message # <<>>
    /\ lastCall.starts = 1
    /\ lastCall.stops = 0
    /\ ctrl.start_tries = MaxTries

\* C2: a start_service call all of whose attempts ended with a match of the
\* transient-error detector and that did not return a service ended with
\* ServiceStartError, after exactly start_tries calls of _start.
TransientEveryAttemptExhaustsTries ==
    (/\ lastCall.op = "start_service"
     /\ lastCall.onlyTransient
     /\ lastCall.outcome # "returned")
    => (/\ lastCall.outcome = "ServiceStartError"
        /\ ctrl.start_tries # Unbounded
        /\ lastCall.starts = ctrl.start_tries
        /\ lastCall.tries = ctrl.start_tries)

TransientOnAllTries ==
    /\ lastCall.op = "start_service"
    /\ lastCall.outcome = "ServiceStartError"
    /\ lastCall.onlyTransient
    /\ lastCall.starts = MaxTries
    /\ lastCall.starts >= 2

\* C3 as stated: the container field is set exactly while _start has been
\* called and no _stop has completed since.
ContainerFieldClearedByStop ==
    \A s \in Services :
        (svc[s].container # None)
        <=> (s \in history.started /\ s \notin history.stopped)

\* C3: the container field is set exactly when _start has been called on the
\* service; _stop does not clear it: once _stop has completed, the field still
\* holds the handle of the container made for the service, which is removed.
ContainerFieldKeptAfterStop ==
    \A s \in Services :
        /\ (svc[s].container # None) <=> (s \in history.started)
        /\ (s \in history.started /\ s \in history.stopped)
           => (/\ history.owner[svc[s].container] = s
               /\ docker[svc[s].container] = "removed")

StoppedServiceKeepsHandle ==
    \E s \in Services :
        /\ lastCall.op = "stop_service"
        /\ lastCall.svc = s
        /\ s \in history.started
        /\ s \in history.stopped
        /\ svc[s].container # None

\* C4: stop_service on a Service on which _start was never called returns
\* without raising and without any call to the container runtime.
StopNeverStartedDoesNothing ==
    \A s \in Services :
        (lastCall.op = "stop_service" /\ lastCall.svc = s /\ s \notin history.started)
        => (/\ lastCall.outcome = "returned"
            /\ lastCall.rt = <<>>
            /\ svc[s] = FreshService)

NeverStartedWasStopped ==
    /\ lastCall.op = "stop_service"
    /\ lastCall.svc \in exists
    /\ lastCall.svc \notin history.started
    /\ \A c \in Cids : docker[c] = "none"

\* C5: a stop_service that directly follows a stop_service on the same
\* Service does not raise and changes neither the Service models, nor the
\* controller, nor the containers of the runtime.
StopServiceIdempotent ==
    [][\A s \in Services :
         (lastCall.op = "stop_service" /\ lastCall.svc = s /\ StopService(s))
         => (/\ lastCall'.outcome = "returned"
             /\ svc' = svc
             /\ ctrl' = ctrl
             /\ log_iterator' = log_iterator
             /\ docker' = docker)]_vars

StoppedTwice ==
    /\ prevCall.op = "stop_service"
    /\ lastCall.op = "stop_service"
    /\ prevCall.svc = lastCall.svc
    /\ lastCall.svc \in history.started
    /\ lastCall.rt = <<"stop">>
    /\ lastCall.outcome = "returned"

\* C6: a stop_service on the Service that start_service has just returned
\* stops and removes its container: afterwards no container made for that
\* Service is running or present.
StopAfterStartRemovesContainer ==
    [][\A s \in Services :
         (/\ lastCall.op = "start_service"
          /\ lastCall.outcome = "returned"
          /\ lastCall.svc = s
          /\ StopService(s))
         => (/\ lastCall'.outcome = "returned"
             /\ lastCall'.rt = <<"stop", "remove">>
             /\ docker'[svc[s].container] = "removed"
             /\ \A c \in Cids : history.owner[c] = s => docker'[c] \notin Present)]_vars

StartedThenStopped ==
    /\ prevCall.op = "start_service"
    /\ prevCall.outcome = "returned"
    /\ lastCall.op = "stop_service"
    /\ lastCall.svc = prevCall.svc
    /\ lastCall.rt = <<"stop", "remove">>
    /\ docker[svc[lastCall.svc].container] = "removed"

\* The readiness strategies a controller is configured with.
Configured(c) ==
    (IF c.start_log_detector \/ c.persistent_error_log_detector
        \/ c.transient_error_log_detector THEN {"log"} ELSE {})
    \cup (IF c.start_http_detector THEN {"http"} ELSE {})
    \cup (IF c.startup_monitor THEN {"monitor"} ELSE {})

\* C7 as stated: a constructed controller is configured with at most one of
\* the three readiness strategies.
AtMostOneStrategy ==
    ctrl.constructed => Cardinality(Configured(ctrl)) <= 1

\* C7: the custom monitor excludes the detectors: a constructed controller
\* with a startup_monitor has no log or HTTP detector, and an attempt that
\* reads the log or polls HTTP belongs to a controller without monitor.  Log
\* and HTTP detection can be configured together; HTTP polling then starts
\* only after the log reader has read a line the start detector matches.
MonitorExcludesDetectors ==
    ctrl.constructed
    => (/\ "monitor" \in Configured(ctrl) => Configured(ctrl) = {"monitor"}
        /\ pc = "monitor" => Configured(ctrl) = {"monitor"}
        /\ pc \in {"log", "http"} => "monitor" \notin Configured(ctrl)
        /\ (pc = "http" /\ ctrl.start_log_detector)
           => (pos >= 1 /\ "start" \in stream[pos]))

LogThenHttp ==
    /\ pc = "http"
    /\ Configured(ctrl) = {"log", "http"}
    /\ pos >= 1
    /\ polls >= 1

\* C8: a construction with startup_monitor and any log detector or the HTTP
\* start detector ends with a configuration error, with no controller state
\* set and no container created.
MonitorWithDetectorRejected ==
    (/\ lastCall.op = "__init__"
     /\ lastCall.message[1].startup_monitor
     /\ \/ lastCall.message[1].start_log_detector
        \/ lastCall.message[1].persistent_error_log_detector
        \/ lastCall.message[1].transient_error_log_detector
        \/ lastCall.message[1].start_http_detector)
    => (/\ pc = "configError"
        /\ lastCall.outcome = "ValueError"
        /\ ctrl = NoCtrl
        /\ exists = {}
        /\ \A c \in Cids : docker[c] = "none")

MonitorWithHttpRejected ==
    /\ pc = "configError"
    /\ lastCall.op = "__init__"
    /\ lastCall.outcome = "ValueError"
    /\ lastCall.message[1].startup_monitor
    /\ lastCall.message[1].start_http_detector
    /\ lastCall.message[1].start_http_detection_endpoint

\* C9: with a controller that has a persistent-error log detector and no
\* other detector, a start_service call during which the container wrote a
\* line that detector matches ends with PersistentServiceStartError carrying
\* that line, after one start attempt.
OnlyPersistentDetectorRaises ==
    (/\ lastCall.op = "start_service"
     /\ Configured(ctrl) = {"log"}
     /\ ~ctrl.start_log_detector
     /\ ~ctrl.transient_error_log_detector
     /\ \E i \in 1..Len(lastCall.log) : "persistent" \in lastCall.log[i])
    => (/\ lastCall.outcome = "PersistentServiceStartError"
        /\ Len(lastCall.message) = 1
        /\ "persistent" \in lastCall.message[1]
        /\ lastCall.starts = 1)

\* The log reader is about to read, on the first attempt, a line the start
\* detector matches, no configured error detector having matched before it.
ReadsStartLine ==
    /\ pc = "log"
    /\ call.tries = 0
    /\ pos < Len(stream)
    /\ "start" \in stream[pos + 1]
    /\ \A j \in 1..pos : ~ErrorMatch(stream[j])

\* Such a line has been read in the first attempt, which is still going on.
StartLineRead ==
    /\ pc \in {"wait", "log", "http", "monitor"}
    /\ call.tries = 0
    /\ \E i \in 1..pos : /\ "start" \in stream[i]
                         /\ \A j \in 1..(i - 1) : ~ErrorMatch(stream[j])

\* start_service has returned the given service after one attempt, with its
\* container set and a host port for exactly the declared ports.
ReturnedAfterOneAttempt(s) ==
    /\ pc = "idle"
    /\ lastCall.op = "start_service"
    /\ lastCall.svc = s
    /\ lastCall.outcome = "returned"
    /\ lastCall.starts = 1
    /\ svc[s].container # None
    /\ DOMAIN svc[s].ports = ctrl.ports

\* C10 as stated: once the first attempt reads a line the start detector
\* matches, with no error-detector match on an earlier line, the attempt goes
\* on until start_service returns the service after that one attempt.
StartMatchSucceeds ==
    [][((ReadsStartLine /\ ReadLogLine) \/ StartLineRead)
       => (StartLineRead' \/ \E s \in Services : s = call.svc /\ ReturnedAfterOneAttempt(s)')]_vars

\* C10: if the first attempt reads a line the start detector matches, no
\* configured error detector matches that line or an earlier one, and no HTTP
\* start detector is configured, start_service returns after exactly one
\* attempt a Service with its container set and a ports mapping whose keys are
\* the declared ports.
StartMatchAloneSucceeds ==
    [][(/\ ReadsStartLine
        /\ ~ErrorMatch(stream[pos + 1])
        /\ ~ctrl.start_http_detector
        /\ ReadLogLine)
       => \E s \in Services : s = call.svc /\ ReturnedAfterOneAttempt(s)']_vars

BootingThenReady ==
    /\ lastCall.op = "start_service"
    /\ lastCall.outcome = "returned"
    /\ lastCall.starts = 1
    /\ ctrl.start_log_detector
    /\ ~ctrl.start_http_detector
    /\ ctrl.start_tries = MaxTries
    /\ Len(lastCall.log) = 2
    /\ "start" \notin lastCall.log[1]
    /\ "start" \in lastCall.log[2]
    /\ Cardinality(DOMAIN svc[lastCall.svc].ports) = 2

\* C11: every start_service call that ends either returns the Service or
\* raises TransientServiceStartError, PersistentServiceStartError or
\* ServiceStartError; no other kind of error reaches the caller.
FourOutcomesOnly ==
    lastCall.op = "start_service"
        => lastCall.outcome \in {"returned", "TransientServiceStartError",
                                 "PersistentServiceStartError", "ServiceStartError"}

\* C12: a readiness wait that exceeds a finite start_timeout ends the attempt
\* exactly as a transient failure does: nothing is raised to the caller, no
\* container is touched, the attempt counter advances by one and control is
\* back at the head of the retry loop; with an unbounded start_timeout the
\* wait has no deadline, so HTTP polling is never abandoned for a retry.
TimeoutIsTransientFailure ==
    [][/\ Timeout
          => /\ pc' = "loop"
             /\ call'.tries = call.tries + 1
             /\ call'.svc = call.svc
             /\ call'.starts = call.starts
             /\ call'.stops = call.stops
             /\ lastCall' = lastCall
             /\ docker' = docker
             /\ svc' = svc
       /\ (pc = "http" /\ ctrl.start_timeout = "inf") => pc' # "loop"]_vars

TimedOutThenStarted ==
    /\ lastCall.op = "start_service"
    /\ lastCall.outcome = "returned"
    /\ ctrl.start_timeout = "finite"
    /\ ctrl.start_http_detector
    /\ ~ctrl.start_log_detector
    /\ lastCall.tries = 1
    /\ lastCall.starts = 2

AcceptedPollEndsPolling ==
    [][/\ HttpPoll("reject")
          => /\ pc' = "http"
             /\ polls' = polls + 1
             /\ call' = call
             /\ lastCall' = lastCall
       /\ HttpPoll("accept")
          => /\ pc' = "idle"
             /\ lastCall'.op = "start_service"
             /\ lastCall'.outcome = "returned"
             /\ lastCall'.polls = polls + 1
             /\ lastCall'.starts = call.starts
             /\ lastCall'.tries = call.tries
       /\ pc # "http" => polls = 0]_vars

ThirdPollAccepted ==
    /\ lastCall.op = "start_service"
    /\ lastCall.outcome = "returned"
    /\ ctrl.start_http_detector
    /\ ~ctrl.start_log_detector
    /\ lastCall.polls = 3
    /\ lastCall.starts = 1

\* The detector that decides a log line for the controller: the persistent
\* error detector before the transient one before the start detector, each
\* only if configured; "none" if no configured detector matches the line.
Deciding(line) ==
    IF ctrl.persistent_error_log_detector /\ "persistent" \in line THEN "persistent"
    ELSE IF ctrl.transient_error_log_detector /\ "transient" \in line THEN "transient"
    ELSE IF ctrl.start_log_detector /\ "start" \in line THEN "start"
    ELSE "none"

\* C15: the log reader takes the lines in stream order, one at a time; every
\* line read before the current one was matched by no configured detector;
\* the line being read decides the attempt by the first of persistent error,
\* transient error, start that matches it, and is passed over if none does;
\* once a line has decided, no further line of that stream is read.
FirstMatchingLineDecides ==
    [][/\ pc = "log" => \A j \in 1..pos : Deciding(stream[j]) = "none"
       /\ (pc = "log" /\ pos < Len(stream) /\ ReadLogLine)
          => LET line == stream[pos + 1]
             IN  /\ Deciding(line) = "persistent"
                    => /\ pc' = "idle"
                       /\ lastCall'.outcome = "PersistentServiceStartError"
                       /\ lastCall'.message = <<line>>
                 /\ Deciding(line) = "transient"
                    => /\ pc' = "loop"
                       /\ call'.tries = call.tries + 1
                 /\ Deciding(line) = "start"
                    => \/ pc' = "http"
                       \/ pc' = "idle" /\ lastCall'.outcome = "returned"
                 /\ Deciding(line) = "none"
                    => /\ pc' = "log"
                       /\ pos' = pos + 1
                       /\ stream' = stream
                 /\ Deciding(line) # "none"
                    => /\ pc' # "log"
                       /\ lastCall'.log \in {<<>>, SubSeq(stream, 1, pos + 1)}]_vars

AllDetectorsMatchOneLine ==
    /\ lastCall.op = "start_service"
    /\ lastCall.outcome = "PersistentServiceStartError"
    /\ ctrl.start_log_detector
    /\ ctrl.transient_error_log_detector
    /\ Len(lastCall.log) = 2
    /\ lastCall.log[1] = {}
    /\ lastCall.log[2] = {"start", "transient", "persistent"}

\* C16: when the log stream of the attempt ends and no detector has matched,
\* the attempt fails as a transient failure whatever state the container is
\* in: nothing reaches the caller, the attempt counter advances by one and
\* control is back at the head of the retry loop.
StreamEndIsTransientFailure ==
    [][LogStreamEnds
          => /\ pc' = "loop"
             /\ call'.tries = call.tries + 1
             /\ lastCall' = lastCall]_vars

\* C17: within one start_service call a failed attempt leaves its container
\* alone, and every attempt after the first stops the previous attempt's
\* container before it starts a new one: the call has made one stop fewer
\* than starts, at most one container it created is present at any time, that
\* one is the container the Service names, and when the call has returned only
\* the container of its last attempt exists.
OneContainerPerCall ==
    [][/\ (pc \in {"log", "http", "monitor"} /\ pc' = "loop") => docker' = docker
       /\ \A s \in Services :
            /\ (call.svc = s /\ call.starts >= 1) => call.stops = call.starts - 1
            /\ \A c \in Cids :
                 (history.owner[c] = s /\ docker[c] \in Present) => svc[s].container = c
            /\ (lastCall.op = "start_service" /\ lastCall.svc = s
                /\ lastCall.outcome = "returned")
               => /\ lastCall.stops = lastCall.starts - 1
                  /\ docker[svc[s].container] \in Present
                  /\ Cardinality({c \in Cids : history.owner[c] = s}) = lastCall.starts]_vars

SecondAttemptReturned ==
    /\ lastCall.op = "start_service"
    /\ lastCall.outcome = "returned"
    /\ lastCall.starts = 2
    /\ lastCall.stops = 1
    /\ Cardinality({c \in Cids : history.owner[c] = lastCall.svc
                                 /\ docker[c] = "removed"}) = 1
    /\ docker[svc[lastCall.svc].container] = "running"

\* ------------------------------------------- a service that is never ready
\* Controllers whose only readiness strategy is HTTP polling.
HttpOnlyArgs ==
    {a \in ConstructorArgs :
        /\ a.start_http_detector
        /\ a.start_http_detection_endpoint
        /\ ~a.startup_monitor
        /\ ~a.start_log_detector
        /\ ~a.persistent_error_log_detector
        /\ ~a.transient_error_log_detector}

\* The steps of such a controller when every request is answered and the
\* classifier rejects every response, while the process lives.
NextNeverReady ==
    \/ \E a \in HttpOnlyArgs : Construct(a)
    \/ \E s \in Services : StartService(s)
    \/ Attempts
    \/ RaiseServiceStartError
    \/ WaitUntilStarted
    \/ HttpPoll("reject")
    \/ Timeout
    \/ \E s \in Services : StopService(s)
    \/ \E s \in Services : NewService(s)
    \/ ContainerExits
    \/ ContainerRestarts

\* The controller's own code runs on whenever it can (the loop, the dispatch
\* of the wait, the raise after the loop) and a timer that was set goes off.
SpecNeverReady ==
    /\ Init
    /\ [][NextNeverReady]_vars
    /\ WF_vars(Attempts)
    /\ WF_vars(WaitUntilStarted)
    /\ WF_vars(RaiseServiceStartError)
    /\ WF_vars(Timeout)

\* Container ids the runtime model has not handed out yet.
FreeCids == {c \in Cids : docker[c] = "none"}

\* C18: with a classifier that never accepts, a start_service call under a
\* finite start_timeout and a finite start_tries = n ends by raising
\* ServiceStartError after exactly n attempts (as long as the runtime model
\* has n container ids left for it), whereas under an unbounded start_timeout
\* the polling of the first attempt is never left, so the call never returns.
NeverReadyEndsOnlyByTimeout ==
    /\ \A s \in Services : \A n \in 0..MaxTries :
          (/\ pc = "loop"
           /\ call.svc = s
           /\ call.tries = 0
           /\ ctrl.start_timeout = "finite"
           /\ ctrl.start_tries = n
           /\ Cardinality(FreeCids) >= n)
          ~> (/\ lastCall.op = "start_service"
              /\ lastCall.svc = s
              /\ lastCall.outcome = "ServiceStartError"
              /\ lastCall.starts = n
              /\ lastCall.tries = n)
    /\ [][(pc = "http" /\ ctrl.start_timeout = "inf")
             => (pc' = "http" /\ call'.starts = 1 /\ lastCall' = lastCall)]_vars

GaveUpAfterAllTries ==
    /\ lastCall.op = "start_service"
    /\ lastCall.outcome = "ServiceStartError"
    /\ ctrl.start_timeout = "finite"
    /\ ctrl.start_http_detector
    /\ lastCall.starts = MaxTries
    /\ lastCall.tries = MaxTries

\* C19: when start_service has raised ServiceStartError or
\* PersistentServiceStartError after at least one attempt, the container of
\* its last attempt was not stopped by it: the call made one stop fewer than
\* starts, the Service's container field names that container, and the
\* container stays present until stop_service or the exit hook runs.
FailedCallLeavesContainer ==
    [][/\ (/\ lastCall.op = "start_service"
           /\ lastCall.outcome \in {"ServiceStartError", "PersistentServiceStartError"}
           /\ lastCall.starts >= 1)
          => /\ lastCall.stops = lastCall.starts - 1
             /\ svc[lastCall.svc].container # None
             /\ history.owner[svc[lastCall.svc].container] = lastCall.svc
             /\ docker[svc[lastCall.svc].container] \in Present
       /\ \A c \in Cids :
            (docker[c] \in Present /\ docker'[c] \notin Present)
               => \/ \E s \in Services : StopService(s)
                  \/ ProcessExit
                  \/ pc = "loop" /\ pc' = "wait"]_vars

TriesExhaustedContainerRunning ==
    /\ lastCall.op = "start_service"
    /\ lastCall.outcome = "ServiceStartError"
    /\ lastCall.starts = MaxTries
    /\ ~ctrl.startup_monitor
    /\ docker[svc[lastCall.svc].container] = "running"

====
